---- MODULE Spec2Model ----
(***************************************************************************)
(* Model of the yatube `posts` application (views.py, models.py, utils.py):*)
(* the Follow table and the profile_follow / profile_unfollow handlers,    *)
(* the Post and Comment tables with their authoring handlers, the          *)
(* paginated feeds and the cached index page.                              *)
(*                                                                         *)
(* Every request is served by a worker.  req[p] is the request worker p    *)
(* last took and, once pc = "done", the response it produced.  A handler   *)
(* that reads or writes the tables once is one step; profile_follow takes  *)
(* a step to look the author up and one for each statement of              *)
(* get_or_create, a SELECT and then an INSERT; profile_unfollow takes a    *)
(* step to enter and one for its DELETE.                                   *)
(***************************************************************************)
EXTENDS Integers, Sequences, FiniteSets, TLC

VARIABLES follows, posts, comments, now, cache, computed, req

vars == <<follows, posts, comments, now, cache, computed, req>>

---------------------------------------------------------------------------
(* Bounds of the model *)

\* number of request workers that may serve requests at the same time
NumWorkers == 2

\* posts created in the runs of the follow feed, the cache and the authoring
MaxPosts == 2

\* posts created in the runs of the cache
MaxCachePosts == 1

\* posts created in the runs of the pagination
MaxFeed == 23

\* comments created in the runs of the authoring
MaxComments == 2

\* time units that pass in the runs of the cache
MaxTime == 20

---------------------------------------------------------------------------
(* Users (django.contrib.auth, an external collaborator) *)

Users == {"author", "bob", "first"}

\* request.user of a client that is not logged in
Anonymous == "anonymous"

\* a username no User row has: get_object_or_404 raises Http404 for it
UnknownName == "ghost"

Workers == 1..NumWorkers

\* the worker that serves the requests of a run in which requests do not overlap
SeqWorker == CHOOSE p \in Workers : \A q \in Workers : p <= q

---------------------------------------------------------------------------
(* Requests and responses *)

NoArg == "-"

\* request.GET.get('page'): absent, not a number ("abc"), or the digits of val
RawAbsent == [kind |-> "absent", val |-> 0]
RawText == [kind |-> "text", val |-> 0]
RawInt(n) == [kind |-> "int", val |-> n]

\* what a handler hands to its template: the page's items and, of its
\* paginator and page, count, number, has_previous and has_next
NoPage == [items |-> <<>>, count |-> 0, number |-> 0,
           has_previous |-> FALSE, has_next |-> FALSE]

Idle ==
    [op |-> "none", pc |-> "idle", user |-> Anonymous, arg |-> NoArg,
     page |-> RawAbsent, status |-> "none", created |-> FALSE, out |-> NoPage]

\* a worker takes a new request once it has answered the previous one
Free(p) == req[p].pc \in {"idle", "done"}

Request(op, pc, user, arg) ==
    [op |-> op, pc |-> pc, user |-> user, arg |-> arg,
     page |-> RawAbsent, status |-> "none", created |-> FALSE, out |-> NoPage]

\* the response of a request: the handler has returned (or raised) `status`
Respond(r, status) == [r EXCEPT !.pc = "done", !.status = status]

\* @login_required: a client that is not logged in is sent to the login page
LoginRequired(p, op, user, arg) ==
    /\ user = Anonymous
    /\ req' = [req EXCEPT ![p] = Respond(Request(op, "idle", user, arg), "redirect_login")]

---------------------------------------------------------------------------
(* The Follow table.  The model declares no unique constraint on          *)
(* (user, author), so the table is a bag of rows: follows[<<u, a>>] is the *)
(* number of rows whose user is u and whose author is a.                   *)

Pairs == Users \X Users

NoFollows == [e \in Pairs |-> 0]

RECURSIVE SumOver(_, _)
SumOver(f, S) ==
    IF S = {} THEN 0
    ELSE LET x == CHOOSE y \in S : TRUE IN f[x] + SumOver(f, S \ {x})

\* Follow.objects.count()
EdgeCount == SumOver(follows, Pairs)

\* author.following.filter(user=..., author=author).exists()
is_following(user, author) ==
    /\ user \in Users
    /\ author \in Users
    /\ follows[<<user, author>>] > 0

\* the guard of profile_follow: a user does not follow themself
MayFollowAnyone(user, author) == TRUE

MayFollow(user, author) == author # user

\* profile_follow, entry: get_object_or_404(User, username=username), then the
\* guard `if author != user`
FollowLookup(p, user, username) ==
    /\ Free(p)
    /\ user \in Users
    /\ IF username \notin Users
       THEN req' = [req EXCEPT ![p] =
                        Respond(Request("follow", "idle", user, username), "not_found")]
       ELSE IF ~MayFollow(user, username)
       THEN req' = [req EXCEPT ![p] =
                        Respond(Request("follow", "idle", user, username), "redirect_profile")]
       ELSE req' = [req EXCEPT ![p] = Request("follow", "get", user, username)]
    /\ UNCHANGED <<follows, posts, comments, now, cache, computed>>

\* get_or_create, first statement: self.get(user=user, author=author).
\* No row: DoesNotExist, and the INSERT follows.  One row: it is returned.
\* Several rows: MultipleObjectsReturned is not caught and the request fails.
FollowGetBlind(p) ==
    /\ req[p].pc = "get"
    /\ req' = [req EXCEPT ![p].pc = "create"]
    /\ UNCHANGED <<follows, posts, comments, now, cache, computed>>

FollowGet(p) ==
    /\ req[p].pc = "get"
    /\ LET n == follows[<<req[p].user, req[p].arg>>] IN
       req' = [req EXCEPT ![p] =
                   IF n = 0 THEN [@ EXCEPT !.pc = "create"]
                   ELSE IF n = 1 THEN Respond(@, "redirect_profile")
                   ELSE Respond(@, "server_error")]
    /\ UNCHANGED <<follows, posts, comments, now, cache, computed>>

\* get_or_create, second statement: self.create(user=user, author=author).
\* Nothing in the table rejects a second row of the same pair.
FollowCreate(p) ==
    /\ req[p].pc = "create"
    /\ follows' = [follows EXCEPT ![<<req[p].user, req[p].arg>>] = @ + 1]
    /\ req' = [req EXCEPT ![p] = [Respond(@, "redirect_profile") EXCEPT !.created = TRUE]]
    /\ UNCHANGED <<posts, comments, now, cache, computed>>

\* profile_follow for a client that is not logged in
FollowAnonymous(p, username) ==
    /\ Free(p)
    /\ LoginRequired(p, "follow", Anonymous, username)
    /\ UNCHANGED <<follows, posts, comments, now, cache, computed>>

\* profile_unfollow, entry
UnfollowStart(p, user, username) ==
    /\ Free(p)
    /\ IF user = Anonymous
       THEN LoginRequired(p, "unfollow", user, username)
       ELSE req' = [req EXCEPT ![p] = Request("unfollow", "delete", user, username)]
    /\ UNCHANGED <<follows, posts, comments, now, cache, computed>>

\* Follow.objects.filter(user=user, author__username=username).delete():
\* one DELETE statement, which removes every row of the pair and removes
\* nothing when no row (or no such username) matches.
DeleteFirstRow(user, username) ==
    IF username \in Users
    THEN [follows EXCEPT ![<<user, username>>] = IF @ > 0 THEN @ - 1 ELSE 0]
    ELSE follows

DeleteRows(user, username) ==
    IF username \in Users
    THEN [follows EXCEPT ![<<user, username>>] = 0]
    ELSE follows

UnfollowDelete(p) ==
    /\ req[p].pc = "delete"
    /\ follows' = DeleteRows(req[p].user, req[p].arg)
    /\ req' = [req EXCEPT ![p] = Respond(@, "redirect_profile")]
    /\ UNCHANGED <<posts, comments, now, cache, computed>>

---------------------------------------------------------------------------
(* The Post table.  A post's id is its position in posts.                  *)

\* slugs of the Group rows
Groups == {"test-slug", "second-test-slug"}

NoGroup == "no-group"

NoImage == "no-image"

\* Post.pub_date is auto_now_add: the clock at the INSERT.  The clock of the
\* model counts whole time units while pub_date has a finer resolution, so
\* of two posts of the same time unit the one inserted later is the newer.
PostNewer(i, j) ==
    \/ posts[i].pub_date > posts[j].pub_date
    \/ posts[i].pub_date = posts[j].pub_date /\ i > j

\* Meta.ordering = ['-pub_date']
RECURSIVE OrderPosts(_)
OrderPosts(S) ==
    IF S = {} THEN <<>>
    ELSE LET first == CHOOSE i \in S : \A j \in S \ {i} : PostNewer(i, j)
         IN <<first>> \o OrderPosts(S \ {first})

PostIds == DOMAIN posts

\* the model instances a queryset yields: the rows of the ids, in their order
PostRows(ids) ==
    [k \in 1..Len(ids) |->
        [id |-> ids[k], text |-> posts[ids[k]].text, author |-> posts[ids[k]].author,
         group |-> posts[ids[k]].group, image |-> posts[ids[k]].image,
         pub_date |-> posts[ids[k]].pub_date]]

\* Post.objects.select_related('group').all()
AllPosts == PostRows(OrderPosts(PostIds))

\* group.posts.all()
PostsOfGroup(slug) == PostRows(OrderPosts({i \in PostIds : posts[i].group = slug}))

\* author.posts.all()
PostsOfAuthor(username) ==
    PostRows(OrderPosts({i \in PostIds : posts[i].author = username}))

\* user.follower.values('author')
FollowedByReversed(user) == {a \in Users : follows[<<a, user>>] > 0}

FollowedBy(user) == {a \in Users : follows[<<user, a>>] > 0}

\* Post.objects.filter(author__in=authors)
PostsOfFollowed(user) ==
    PostRows(OrderPosts({i \in PostIds : posts[i].author \in FollowedBy(user)}))

---------------------------------------------------------------------------
(* utils.get_page_context and django.core.paginator.Paginator             *)

NUMBER_OF_OUTPUT_POSTS == 10

Max(a, b) == IF a >= b THEN a ELSE b

Min(a, b) == IF a <= b THEN a ELSE b

\* Paginator.num_pages: ceil(max(1, count) / per_page), orphans = 0
NumPages(count) ==
    (Max(1, count) + NUMBER_OF_OUTPUT_POSTS - 1) \div NUMBER_OF_OUTPUT_POSTS

\* int(number) of Paginator.validate_number: None and text are not integers
IsInteger(raw) == raw.kind = "int"

\* Paginator.get_page: PageNotAnInteger gives page 1, EmptyPage (a number
\* below 1 or above num_pages) gives the last page
PageNumberFirstOnEmpty(raw, count) ==
    IF ~IsInteger(raw) THEN 1
    ELSE IF raw.val < 1 THEN 1
    ELSE IF raw.val > NumPages(count) THEN NumPages(count)
    ELSE raw.val

PageNumberUnclamped(raw, count) ==
    IF ~IsInteger(raw) THEN 1
    ELSE IF raw.val < 1 THEN NumPages(count)
    ELSE raw.val

PageNumber(raw, count) ==
    IF ~IsInteger(raw) THEN 1
    ELSE IF raw.val < 1 THEN NumPages(count)
    ELSE IF raw.val > NumPages(count) THEN NumPages(count)
    ELSE raw.val

\* Paginator.page: object_list[bottom:top]
PageSliceOverlapping(source, number) ==
    LET bottom == (number - 1) * NUMBER_OF_OUTPUT_POSTS
        top == Min(bottom + NUMBER_OF_OUTPUT_POSTS + 1, Len(source))
    IN SubSeq(source, bottom + 1, top)

PageSlice(source, number) ==
    LET bottom == (number - 1) * NUMBER_OF_OUTPUT_POSTS
        top == Min(bottom + NUMBER_OF_OUTPUT_POSTS, Len(source))
    IN SubSeq(source, bottom + 1, top)

\* get_page_context(posts, request): the page_obj of the template context
get_page_context(source, raw) ==
    LET count == Len(source)
        number == PageNumber(raw, count)
    IN [items |-> PageSlice(source, number),
        count |-> count,
        number |-> number,
        has_previous |-> number > 1,
        has_next |-> number < NumPages(count)]

Paged(op, user, arg, raw) == [Request(op, "idle", user, arg) EXCEPT !.page = raw]

Render(r, out) == [Respond(r, "ok") EXCEPT !.out = out]

---------------------------------------------------------------------------
(* The feeds that are computed on every request *)

\* group_posts(request, slug): no cache_page decorates it
group_postsCached(p, user, slug, raw) ==
    /\ Free(p)
    /\ LET k == <<user, slug, raw>>
           fresh == get_page_context(PostsOfGroup(slug), raw)
           hit == k \in DOMAIN cache /\ now < cache[k].expires
       IN IF slug \notin Groups
          THEN /\ req' = [req EXCEPT ![p] =
                              Respond(Paged("group_posts", user, slug, raw), "not_found")]
               /\ cache' = cache
          ELSE /\ req' = [req EXCEPT ![p] =
                              Render(Paged("group_posts", user, slug, raw),
                                     IF hit THEN cache[k].value ELSE fresh)]
               /\ cache' = IF hit THEN cache
                           ELSE (k :> [value |-> fresh, expires |-> now + 20]) @@ cache
    /\ UNCHANGED <<follows, posts, comments, now, computed>>

\* group_posts(request, slug)
group_posts(p, user, slug, raw) ==
    /\ Free(p)
    /\ req' = [req EXCEPT ![p] =
                   IF slug \notin Groups
                   THEN Respond(Paged("group_posts", user, slug, raw), "not_found")
                   ELSE Render(Paged("group_posts", user, slug, raw),
                               get_page_context(PostsOfGroup(slug), raw))]
    /\ UNCHANGED <<follows, posts, comments, now, cache, computed>>

\* profile(request, username)
profile(p, user, username, raw) ==
    /\ Free(p)
    /\ req' = [req EXCEPT ![p] =
                   IF username \notin Users
                   THEN Respond(Paged("profile", user, username, raw), "not_found")
                   ELSE Render(Paged("profile", user, username, raw),
                               get_page_context(PostsOfAuthor(username), raw))]
    /\ UNCHANGED <<follows, posts, comments, now, cache, computed>>

\* follow_index(request)
follow_index(p, user, raw) ==
    /\ Free(p)
    /\ IF user = Anonymous
       THEN LoginRequired(p, "follow_index", user, NoArg)
       ELSE req' = [req EXCEPT ![p] =
                        Render(Paged("follow_index", user, NoArg, raw),
                               get_page_context(PostsOfFollowed(user), raw))]
    /\ UNCHANGED <<follows, posts, comments, now, cache, computed>>

---------------------------------------------------------------------------
(* The index page behind cache_page(20, key_prefix='index_page')           *)

\* the timeout of cache_page
CACHE_TTL == 20

\* the cache with no entry
NoCache == [k \in {} |-> 0]

\* the cache key of a request: its URL with the query string, and the
\* headers the response varies on (the session cookie of the client)
CacheKey(user, raw) == <<user, raw>>

\* the cache's expiry test: an entry is served while the clock is before
\* its expiry time
CachedThroughExpiry(k) == k \in DOMAIN cache /\ now <= cache[k].expires

Cached(k) == k \in DOMAIN cache /\ now < cache[k].expires

\* the result the cache policy calls for: the one computed last for the key
\* while it is younger than the timeout and no clear came since, the one
\* computed now otherwise
Due(k) == k \notin DOMAIN computed \/ now >= computed[k].t0 + CACHE_TTL

\* index(request)
index(p, user, raw) ==
    /\ Free(p)
    /\ LET k == CacheKey(user, raw)
           fresh == get_page_context(AllPosts, raw)
       IN /\ IF Cached(k)
             THEN /\ req' = [req EXCEPT ![p] =
                                 Render(Paged("index", user, NoArg, raw), cache[k].value)]
                  /\ cache' = cache
             ELSE /\ req' = [req EXCEPT ![p] =
                                 Render(Paged("index", user, NoArg, raw), fresh)]
                  /\ cache' = (k :> [value |-> fresh, expires |-> now + CACHE_TTL]) @@ cache
          /\ computed' = IF Due(k)
                         THEN (k :> [value |-> fresh, t0 |-> now]) @@ computed
                         ELSE computed
    /\ UNCHANGED <<follows, posts, comments, now>>

\* cache.clear()
cache_clear ==
    /\ cache' = NoCache
    /\ computed' = NoCache
    /\ UNCHANGED <<follows, posts, comments, now, req>>

\* one time unit passes
Tick ==
    /\ now' = now + 1
    /\ UNCHANGED <<follows, posts, comments, cache, computed, req>>

---------------------------------------------------------------------------
(* Authoring: post_create, post_edit, add_comment, and post_detail         *)

\* request.POST and request.FILES of a request; a GET carries neither
GetRequest == [method |-> "GET", text |-> "", group |-> NoGroup, image |-> NoImage]

PostData(text, group, image) ==
    [method |-> "POST", text |-> text, group |-> group, image |-> image]

\* PostForm(request.POST or None, files=request.FILES or None).is_valid():
\* the form is bound, text is not empty and group is a Group or empty
PostFormIsValid(data) ==
    /\ data.method = "POST"
    /\ data.text # ""
    /\ data.group \in Groups \cup {NoGroup}

\* CommentForm(request.POST or None).is_valid()
CommentFormIsValid(data) ==
    /\ data.method = "POST"
    /\ data.text # ""

\* post_create(request)
post_create(p, user, data) ==
    /\ Free(p)
    /\ IF user = Anonymous
       THEN LoginRequired(p, "post_create", user, NoArg) /\ posts' = posts
       ELSE IF data.method = "POST" /\ PostFormIsValid(data)
       THEN /\ posts' = Append(posts, [text |-> data.text, author |-> user,
                                       group |-> data.group, image |-> data.image,
                                       pub_date |-> now])
            /\ req' = [req EXCEPT ![p] =
                           Respond(Request("post_create", "idle", user, NoArg),
                                   "redirect_profile")]
       ELSE /\ posts' = posts
            /\ req' = [req EXCEPT ![p] =
                           Respond(Request("post_create", "idle", user, NoArg), "ok")]
    /\ UNCHANGED <<follows, comments, now, cache, computed>>

\* the guard of post_edit: `if request.user != post.author`
MayEditAnyones(user, post) == TRUE

MayEdit(user, post) == user = post.author

\* form.save() of a PostForm bound to instance=post: text and group are
\* taken from the data; the image is replaced when a file is uploaded
SavedPost(post, data) ==
    [post EXCEPT !.text = data.text,
                 !.group = data.group,
                 !.image = IF data.image = NoImage THEN @ ELSE data.image]

\* form.save() of post_edit: the form was built with instance=post, so the
\* row of post_id is updated and no row is added
SaveFormAsNew(post_id, data) ==
    Append(posts, [SavedPost(posts[post_id], data) EXCEPT !.pub_date = now])

SaveForm(post_id, data) == [posts EXCEPT ![post_id] = SavedPost(@, data)]

\* post_edit(request, post_id)
post_edit(p, user, post_id, data) ==
    /\ Free(p)
    /\ IF user = Anonymous
       THEN LoginRequired(p, "post_edit", user, post_id) /\ posts' = posts
       ELSE IF post_id \notin PostIds
       THEN /\ posts' = posts
            /\ req' = [req EXCEPT ![p] =
                           Respond(Request("post_edit", "idle", user, post_id), "not_found")]
       ELSE IF ~MayEdit(user, posts[post_id])
       THEN /\ posts' = posts
            /\ req' = [req EXCEPT ![p] =
                           Respond(Request("post_edit", "idle", user, post_id),
                                   "redirect_detail")]
       ELSE IF PostFormIsValid(data)
       THEN /\ posts' = SaveForm(post_id, data)
            /\ req' = [req EXCEPT ![p] =
                           Respond(Request("post_edit", "idle", user, post_id),
                                   "redirect_detail")]
       ELSE /\ posts' = posts
            /\ req' = [req EXCEPT ![p] =
                           Respond(Request("post_edit", "idle", user, post_id), "ok")]
    /\ UNCHANGED <<follows, comments, now, cache, computed>>

\* form.save(commit=False); comment.author = request.user;
\* comment.post = post; comment.save()
NewCommentByPostAuthor(user, post_id, data) ==
    [post |-> post_id, author |-> posts[post_id].author,
     text |-> data.text, created |-> now]

NewComment(user, post_id, data) ==
    [post |-> post_id, author |-> user, text |-> data.text, created |-> now]

\* add_comment(request, post_id)
add_comment(p, user, post_id, data) ==
    /\ Free(p)
    /\ IF user = Anonymous
       THEN LoginRequired(p, "add_comment", user, post_id) /\ comments' = comments
       ELSE IF post_id \notin PostIds
       THEN /\ comments' = comments
            /\ req' = [req EXCEPT ![p] =
                           Respond(Request("add_comment", "idle", user, post_id),
                                   "not_found")]
       ELSE /\ comments' = IF CommentFormIsValid(data)
                           THEN Append(comments, NewComment(user, post_id, data))
                           ELSE comments
            /\ req' = [req EXCEPT ![p] =
                           Respond(Request("add_comment", "idle", user, post_id),
                                   "redirect_detail")]
    /\ UNCHANGED <<follows, posts, now, cache, computed>>

\* Comment.created is auto_now_add, with the resolution of Post.pub_date
CommentNewer(i, j) ==
    \/ comments[i].created > comments[j].created
    \/ comments[i].created = comments[j].created /\ i > j

\* Comment.Meta.ordering = ['-created']
RECURSIVE OrderComments(_)
OrderComments(S) ==
    IF S = {} THEN <<>>
    ELSE LET first == CHOOSE i \in S : \A j \in S \ {i} : CommentNewer(i, j)
         IN <<first>> \o OrderComments(S \ {first})

CommentRows(ids) ==
    [k \in 1..Len(ids) |->
        [id |-> ids[k], post |-> comments[ids[k]].post,
         author |-> comments[ids[k]].author, text |-> comments[ids[k]].text,
         created |-> comments[ids[k]].created]]

\* Comment.objects.all()
AllComments == CommentRows(OrderComments(DOMAIN comments))

\* post_detail(request, post_id): the comments of the template context
post_detail(p, user, post_id) ==
    /\ Free(p)
    /\ req' = [req EXCEPT ![p] =
                   IF post_id \notin PostIds
                   THEN Respond(Request("post_detail", "idle", user, post_id), "not_found")
                   ELSE Render(Request("post_detail", "idle", user, post_id),
                               [NoPage EXCEPT !.items = AllComments,
                                              !.count = Len(AllComments)])]
    /\ UNCHANGED <<follows, posts, comments, now, cache, computed>>

---------------------------------------------------------------------------
(* Initial state and the specification of concurrent follow requests *)

Init ==
    /\ follows = NoFollows
    /\ posts = <<>>
    /\ comments = <<>>
    /\ now = 0
    /\ cache = NoCache
    /\ computed = NoCache
    /\ req = [p \in Workers |-> Idle]

\* the clients of the concurrent run
FollowClients == {"author", "bob"}

Next ==
    \E p \in Workers :
        \/ \E u \in FollowClients, n \in FollowClients \cup {UnknownName} :
               FollowLookup(p, u, n)
        \/ FollowGet(p)
        \/ FollowCreate(p)
        \/ \E n \in FollowClients : FollowAnonymous(p, n)
        \/ \E u \in FollowClients \cup {Anonymous}, n \in FollowClients \cup {UnknownName} :
               UnfollowStart(p, u, n)
        \/ UnfollowDelete(p)

Spec == Init /\ [][Next]_vars

---------------------------------------------------------------------------
(* Requests that run one after another: follow, unfollow, post creation    *)
(* and the follow feed                                                     *)

NextFeed ==
    \/ \E u \in Users, n \in Users : FollowLookup(SeqWorker, u, n)
    \/ FollowGet(SeqWorker)
    \/ FollowCreate(SeqWorker)
    \/ \E u \in Users, n \in Users : UnfollowStart(SeqWorker, u, n)
    \/ UnfollowDelete(SeqWorker)
    \/ \E u \in Users :
           /\ Len(posts) < MaxPosts
           /\ post_create(SeqWorker, u, PostData("Text", NoGroup, NoImage))
    \/ \E u \in Users \cup {Anonymous} : follow_index(SeqWorker, u, RawAbsent)

SpecFeed == Init /\ [][NextFeed]_vars

---------------------------------------------------------------------------
(* The index page, its cache and the clock *)

IndexPages == {RawAbsent, RawInt(1)}

NextCache ==
    \/ now < MaxTime /\ Tick
    \/ /\ Len(posts) < MaxCachePosts
       /\ post_create(SeqWorker, "author", PostData("Text", "test-slug", NoImage))
    \/ \E raw \in IndexPages : index(SeqWorker, "author", raw)
    \/ cache_clear

SpecCache == Init /\ [][NextCache]_vars

---------------------------------------------------------------------------
(* Pagination of a feed of up to MaxFeed posts *)

RawPages == {RawAbsent, RawText} \cup {RawInt(n) : n \in -1..4}

NextPage ==
    \/ /\ Len(posts) < MaxFeed
       /\ post_create(SeqWorker, "author", PostData("Text", "test-slug", NoImage))
    \/ \E raw \in RawPages : profile(SeqWorker, "author", "author", raw)
    \/ \E raw \in RawPages, slug \in {"test-slug", "no-such-slug"} :
           group_posts(SeqWorker, Anonymous, slug, raw)

SpecPage == Init /\ [][NextPage]_vars

---------------------------------------------------------------------------
(* Authoring: posts and their edits *)

Editors == {"author", "bob", Anonymous}

CreateData == {GetRequest, PostData("Text", "test-slug", NoImage)}

EditData ==
    {GetRequest,
     PostData("", "second-test-slug", NoImage),
     PostData("Text 2", NoGroup, NoImage),
     PostData("Text 2", "second-test-slug", "posts/small.gif")}

NextEdit ==
    \/ \E u \in Editors, d \in CreateData :
           /\ Len(posts) < MaxPosts
           /\ post_create(SeqWorker, u, d)
    \/ \E u \in Editors, i \in 1..(MaxPosts + 1), d \in EditData :
           post_edit(SeqWorker, u, i, d)

SpecEdit == Init /\ [][NextEdit]_vars

---------------------------------------------------------------------------
(* Authoring: comments and the post page *)

CommentData ==
    {GetRequest, PostData("", NoGroup, NoImage), PostData("Comment", NoGroup, NoImage)}

NextComments ==
    \/ \E u \in Users \ {"first"} :
           /\ Len(posts) < MaxPosts
           /\ post_create(SeqWorker, u, PostData("Text", "test-slug", NoImage))
    \/ \E u \in Editors, i \in 1..(MaxPosts + 1), d \in CommentData :
           /\ Len(comments) < MaxComments
           /\ add_comment(SeqWorker, u, i, d)
    \/ \E u \in Editors, i \in 1..(MaxPosts + 1) : post_detail(SeqWorker, u, i)

SpecComments == Init /\ [][NextComments]_vars

---------------------------------------------------------------------------
(* The cached index page beside the feeds that are not cached.  The clock   *)
(* stands still in these runs, so a cached index page stays within its      *)
(* timeout until the cache is cleared.                                      *)

NextFresh ==
    \/ /\ Len(posts) < MaxPosts
       /\ post_create(SeqWorker, "author", PostData("Text", "test-slug", NoImage))
    \/ \E i \in 1..MaxPosts :
           post_edit(SeqWorker, "author", i, PostData("Text 2", "second-test-slug", NoImage))
    \/ FollowLookup(SeqWorker, "bob", "author")
    \/ FollowGet(SeqWorker)
    \/ FollowCreate(SeqWorker)
    \/ index(SeqWorker, "bob", RawAbsent)
    \/ \E slug \in Groups : group_posts(SeqWorker, "bob", slug, RawAbsent)
    \/ profile(SeqWorker, "bob", "author", RawAbsent)
    \/ follow_index(SeqWorker, "bob", RawAbsent)
    \/ cache_clear

SpecFresh == Init /\ [][NextFresh]_vars

---------------------------------------------------------------------------
(* Properties *)

\* C1: in every reachable state the Follow table holds at most one row per
\* ordered pair (user, author), also when identical follow requests of one
\* user run concurrently and their SELECT and INSERT interleave.
C1_OneEdgePerPair == \A e \in Pairs : follows[e] <= 1

\* C4: no reachable state holds a self-follow row (u, u): follow(u, u)
\* creates no row, after any sequence of follow and unfollow requests.
C4_NoSelfFollow == \A u \in Users : follows[<<u, u>>] = 0

\* a follow(u, u) request has been answered, and the table holds no row (u, u)
C4_SelfFollowAnswered ==
    \E p \in Workers :
        /\ req[p].op = "follow"
        /\ req[p].pc = "done"
        /\ req[p].status = "redirect_profile"
        /\ req[p].arg = req[p].user
        /\ ~req[p].created
        /\ follows[<<req[p].user, req[p].user>>] = 0
        /\ EdgeCount > 0

\* C6: unfollow(user, author) never errors; it leaves no row of the pair, so
\* is_following(user, author) is false afterwards; when no row was present
\* the table and its row count are unchanged; the rows of every other pair
\* are unchanged in both cases.
C6_Unfollow ==
    [][\A p \in Workers :
          UnfollowDelete(p) =>
              LET u == req[p].user
                  a == req[p].arg
              IN /\ req'[p].pc = "done"
                 /\ req'[p].status = "redirect_profile"
                 /\ ~(is_following(u, a))'
                 /\ ~is_following(u, a) => (follows' = follows /\ EdgeCount' = EdgeCount)
                 /\ \A e \in Pairs : e # <<u, a>> => follows'[e] = follows[e]]_vars

\* an unfollow has been answered and its pair, for which another worker had
\* created a row, has no row, while another pair keeps its row
C6_UnfollowedOne ==
    \E p, q \in Workers :
        /\ req[p].op = "unfollow"
        /\ req[p].pc = "done"
        /\ req[p].status = "redirect_profile"
        /\ req[p].user \in Users
        /\ req[p].arg \in Users
        /\ req[q].op = "follow"
        /\ req[q].pc = "done"
        /\ req[q].created
        /\ req[q].user = req[p].user
        /\ req[q].arg = req[p].arg
        /\ follows[<<req[p].user, req[p].arg>>] = 0
        /\ follows[<<req[p].arg, req[p].user>>] > 0

\* C5: when requests run one after another, follow(user, author) with
\* user # author on a table without the row adds exactly one row, and a
\* second follow(user, author) changes nothing, so two calls leave one row.
C5_FollowTwice ==
    [][/\ FollowGet(SeqWorker) =>
              LET e == <<req[SeqWorker].user, req[SeqWorker].arg>>
              IN /\ follows' = follows
                 /\ follows[e] <= 1
                 /\ follows[e] = 0 => req'[SeqWorker].pc = "create"
                 /\ follows[e] = 1 => /\ req'[SeqWorker].pc = "done"
                                      /\ req'[SeqWorker].status = "redirect_profile"
                                      /\ ~req'[SeqWorker].created
       /\ FollowCreate(SeqWorker) =>
              LET e == <<req[SeqWorker].user, req[SeqWorker].arg>>
              IN /\ follows[e] = 0
                 /\ follows'[e] = 1
                 /\ EdgeCount' = EdgeCount + 1
                 /\ req'[SeqWorker].created]_vars

\* a second follow of a pair has been answered: it found the row, and the
\* pair has one row
C5_SecondFollowAnswered ==
    /\ req[SeqWorker].op = "follow"
    /\ req[SeqWorker].pc = "done"
    /\ req[SeqWorker].status = "redirect_profile"
    /\ req[SeqWorker].arg # req[SeqWorker].user
    /\ ~req[SeqWorker].created
    /\ follows[<<req[SeqWorker].user, req[SeqWorker].arg>>] = 1

\* C7: after any sequence of follow, unfollow and create_post, the follow
\* feed of u holds exactly the posts whose author u follows at the time of
\* the read: none for a user who follows nobody, none of an author u has
\* unfollowed, and the posts created before or after the follow alike.
C7_FollowFeed ==
    [][\A u \in Users :
          follow_index(SeqWorker, u, RawAbsent) =>
              LET out == req'[SeqWorker].out
                  expected == {i \in PostIds : follows[<<u, posts[i].author>>] >= 1}
              IN /\ req'[SeqWorker].status = "ok"
                 /\ {out.items[k].id : k \in 1..Len(out.items)} = expected
                 /\ Len(out.items) = Cardinality(expected)
                 /\ out.count = Cardinality(expected)]_vars

\* a follow feed that holds a post of a followed author and leaves out a post
\* of an author who is not followed
C7_FeedOfFollowed ==
    /\ req[SeqWorker].op = "follow_index"
    /\ req[SeqWorker].status = "ok"
    /\ req[SeqWorker].out.count = 1
    /\ Len(posts) = 2
    /\ \E i \in PostIds : ~is_following(req[SeqWorker].user, posts[i].author)

\* C3: update_post by an editor who is not the author of the post is denied,
\* answered by a redirect to the post page, and leaves every stored field of
\* the post (text, group, image, author, pub_date) as it was, whatever data
\* the request carries.
C3_EditDenied ==
    [][\A u \in Users, i \in PostIds, d \in EditData :
          (u # posts[i].author /\ post_edit(SeqWorker, u, i, d)) =>
              /\ req'[SeqWorker].status = "redirect_detail"
              /\ posts' = posts]_vars

\* an edit that carried valid data has been denied to a user who is not the
\* author of the post
C3_DeniedEdit ==
    /\ req[SeqWorker].op = "post_edit"
    /\ req[SeqWorker].status = "redirect_detail"
    /\ req[SeqWorker].user \in Users
    /\ req[SeqWorker].arg \in PostIds
    /\ req[SeqWorker].user # posts[req[SeqWorker].arg].author
    /\ posts[req[SeqWorker].arg].text = "Text"

\* C9: the post page of post p shows only the comments whose post is p,
\* newest first; a comment of another post never appears on it.
C9_DetailCommentsOfPost ==
    (req[SeqWorker].op = "post_detail" /\ req[SeqWorker].status = "ok") =>
        LET items == req[SeqWorker].out.items
        IN /\ \A k \in 1..Len(items) : items[k].post = req[SeqWorker].arg
           /\ \A k, l \in 1..Len(items) : k < l => items[k].created >= items[l].created

\* C2: once the index page has been computed for a rendering context at t0,
\* every read of that context before t0 + 20 with no cache clear in between
\* returns the result computed at t0, whatever posts were created since; the
\* first read after a clear, or once 20 time units have passed, is computed
\* from the posts of that moment and shows the newest post first.
C2_CachedIndex ==
    [][\A raw \in IndexPages :
          index(SeqWorker, "author", raw) =>
              LET k == CacheKey("author", raw)
                  out == req'[SeqWorker].out
              IN IF ~Due(k)
                 THEN out = computed[k].value
                 ELSE /\ out = get_page_context(AllPosts, raw)
                      /\ out.count = Len(posts)
                      /\ posts # <<>> => out.items[1].id = Len(posts)]_vars

\* a read that was served the result computed before the newest post was
\* created, after another rendering context had been computed with that post
C2_StaleRead ==
    /\ req[SeqWorker].op = "index"
    /\ req[SeqWorker].status = "ok"
    /\ req[SeqWorker].page = RawAbsent
    /\ req[SeqWorker].out.count < Len(posts)
    /\ CacheKey("author", RawInt(1)) \in DOMAIN computed
    /\ computed[CacheKey("author", RawInt(1))].value.count = Len(posts)

\* the pages 1..last of a source, one after another
RECURSIVE PagesFrom(_, _, _)
PagesFrom(source, number, last) ==
    IF number > last THEN <<>>
    ELSE get_page_context(source, RawInt(number)).items
             \o PagesFrom(source, number + 1, last)

\* C8: compose_feed cuts the ordered source into consecutive pages of 10:
\* for n >= 1 posts, page p (1 <= p <= ceil(n / 10)) holds the items at the
\* positions 10(p-1)+1 .. min(10p, n); no page holds more than 10 items, and
\* the pages 1..last, one after another, are the whole source, newest first,
\* with no item twice and none left out.
C8_PagesPartition ==
    [][\A number \in 1..4 :
          profile(SeqWorker, "author", "author", RawInt(number)) =>
              LET source == PostsOfAuthor("author")
                  n == Len(source)
                  last == (n + 9) \div 10
                  out == req'[SeqWorker].out
              IN (n >= 1 /\ number <= last) =>
                     /\ out.number = number
                     /\ out.count = n
                     /\ Len(out.items) = Min(10 * number, n) - 10 * (number - 1)
                     /\ Len(out.items) <= 10
                     /\ \A k \in 1..Len(out.items) :
                            out.items[k] = source[10 * (number - 1) + k]
                     /\ PagesFrom(source, 1, last) = source
                     /\ {source[k].id : k \in 1..n} = PostIds
                     /\ \A k, l \in 1..n : k < l => PostNewer(source[k].id, source[l].id)]_vars

\* 13 posts: page 2 has been read and holds the 3 oldest
C8_SecondPageOfThirteen ==
    /\ req[SeqWorker].op = "profile"
    /\ req[SeqWorker].status = "ok"
    /\ req[SeqWorker].page = RawInt(2)
    /\ req[SeqWorker].out.count = 13
    /\ Len(req[SeqWorker].out.items) = 3
    /\ req[SeqWorker].out.items[3].id = 1

\* C10: compose_feed takes the page number as 1-based and returns page 1
\* whenever the requested number is absent or invalid (not a number, zero or
\* negative), for every source.
C10_InvalidGivesFirstPage ==
    [][\A raw \in RawPages :
          (profile(SeqWorker, "author", "author", raw)
               /\ (~IsInteger(raw) \/ raw.val < 1)) =>
              LET source == PostsOfAuthor("author")
                  out == req'[SeqWorker].out
              IN /\ out.number = 1
                 /\ out.items = SubSeq(source, 1, Min(10, Len(source)))]_vars

\* C10 as the code has it: page numbers are 1-based; an absent page number
\* and one that is not an integer give page 1; zero and negative numbers
\* give the last page, which is page 1 only for a source of at most 10 items.
C10_AbsentOrTextGivesFirstPage ==
    [][\A raw \in RawPages :
          profile(SeqWorker, "author", "author", raw) =>
              LET source == PostsOfAuthor("author")
                  n == Len(source)
                  last == IF n = 0 THEN 1 ELSE (n + 9) \div 10
                  out == req'[SeqWorker].out
              IN /\ ~IsInteger(raw) =>
                        /\ out.number = 1
                        /\ out.items = SubSeq(source, 1, Min(10, n))
                 /\ (IsInteger(raw) /\ raw.val = 1) =>
                        out.items = SubSeq(source, 1, Min(10, n))
                 /\ (IsInteger(raw) /\ raw.val < 1) =>
                        /\ out.number = last
                        /\ out.items = SubSeq(source, 10 * (last - 1) + 1, n)]_vars

\* page 0 of 13 posts has been read: it is page 2, the last
C10_PageZeroOfThirteen ==
    /\ req[SeqWorker].op = "profile"
    /\ req[SeqWorker].status = "ok"
    /\ req[SeqWorker].page = RawInt(0)
    /\ req[SeqWorker].out.count = 13
    /\ req[SeqWorker].out.number = 2
    /\ Len(req[SeqWorker].out.items) = 3

\* C11: compose_feed never errors on a page number beyond the last page: it
\* returns the last page (of 13 posts, page 3 is the 3 items of page 2); an
\* empty source gives an empty page with count 0 and neither a previous nor
\* a next page.
C11_BeyondLastAndEmpty ==
    [][\A raw \in RawPages :
          profile(SeqWorker, "author", "author", raw) =>
              LET source == PostsOfAuthor("author")
                  n == Len(source)
                  last == IF n = 0 THEN 1 ELSE (n + 9) \div 10
                  out == req'[SeqWorker].out
              IN /\ req'[SeqWorker].status = "ok"
                 /\ out.count = n
                 /\ (IsInteger(raw) /\ raw.val > last) =>
                        /\ out.number = last
                        /\ out.items = SubSeq(source, 10 * (last - 1) + 1, n)
                        /\ out.items = get_page_context(source, RawInt(last)).items
                        /\ ~out.has_next
                 /\ n = 0 =>
                        /\ out.items = <<>>
                        /\ out.count = 0
                        /\ ~out.has_previous
                        /\ ~out.has_next]_vars

\* page 3 of 13 posts has been read: it is page 2, the 3 oldest posts
C11_PageThreeOfThirteen ==
    /\ req[SeqWorker].op = "profile"
    /\ req[SeqWorker].status = "ok"
    /\ req[SeqWorker].page = RawInt(3)
    /\ req[SeqWorker].out.count = 13
    /\ req[SeqWorker].out.number = 2
    /\ Len(req[SeqWorker].out.items) = 3
    /\ req[SeqWorker].out.items[3].id = 1
    /\ req[SeqWorker].out.has_previous

\* the ids of the posts of a group's feed
GroupFeedIds(slug) == {PostsOfGroup(slug)[k].id : k \in 1..Len(PostsOfGroup(slug))}

\* C12: a successful update_post by the author of the post changes only the
\* text, group and image of that post: its id, author and pub_date are the
\* same before and after, every other post is unchanged and so is the number
\* of posts; a changed group moves the post out of the feed of the old group
\* and into the feed of the new one.
C12_EditFrame ==
    [][\A u \in Users, i \in PostIds, d \in EditData :
          (u = posts[i].author /\ PostFormIsValid(d) /\ post_edit(SeqWorker, u, i, d)) =>
              /\ req'[SeqWorker].status = "redirect_detail"
              /\ Len(posts') = Len(posts)
              /\ \A j \in PostIds : j # i => posts'[j] = posts[j]
              /\ posts'[i].author = posts[i].author
              /\ posts'[i].pub_date = posts[i].pub_date
              /\ posts'[i].text = d.text
              /\ posts'[i].group = d.group
              /\ posts'[i].image \in {posts[i].image, d.image}
              /\ \A old \in Groups :
                     (old = posts[i].group /\ d.group # old) =>
                         /\ i \in GroupFeedIds(old)
                         /\ i \notin GroupFeedIds(old)'
              /\ (d.group \in Groups /\ d.group # posts[i].group) =>
                     /\ i \notin GroupFeedIds(d.group)
                     /\ i \in GroupFeedIds(d.group)'
              /\ \A g \in Groups : \A j \in PostIds \ {i} :
                     (j \in GroupFeedIds(g)') = (j \in GroupFeedIds(g))]_vars

\* the author has edited one of two posts: it has the new text, group and
\* image, it is in the feed of the new group and left the old one, and the
\* other post is as it was created
C12_EditedOneOfTwo ==
    /\ req[SeqWorker].op = "post_edit"
    /\ req[SeqWorker].status = "redirect_detail"
    /\ Len(posts) = 2
    /\ req[SeqWorker].arg \in PostIds
    /\ req[SeqWorker].user = posts[req[SeqWorker].arg].author
    /\ posts[req[SeqWorker].arg].text = "Text 2"
    /\ posts[req[SeqWorker].arg].group = "second-test-slug"
    /\ posts[req[SeqWorker].arg].image = "posts/small.gif"
    /\ GroupFeedIds("second-test-slug") = {req[SeqWorker].arg}
    /\ \E j \in PostIds :
           /\ j # req[SeqWorker].arg
           /\ posts[j].text = "Text"
           /\ GroupFeedIds("test-slug") = {j}

\* C14: create_comment(author, post_id, text) with an unknown post_id fails
\* with NotFound, and with an empty text is rejected by the form's
\* validation; neither creates a comment nor changes any stored state.  On
\* success exactly one comment is added, whose author is the requesting user
\* and whose post is the post of post_id, and no later operation changes the
\* author, post or text of a comment.
C14_CreateComment ==
    [][/\ \A u \in Users, i \in 1..(MaxPosts + 1), d \in CommentData :
              add_comment(SeqWorker, u, i, d) =>
                  /\ UNCHANGED <<posts, follows, cache>>
                  /\ i \notin PostIds =>
                         /\ req'[SeqWorker].status = "not_found"
                         /\ comments' = comments
                  /\ (i \in PostIds /\ d.text = "") =>
                         /\ req'[SeqWorker].status = "redirect_detail"
                         /\ comments' = comments
                  /\ (i \in PostIds /\ d.text # "") =>
                         /\ req'[SeqWorker].status = "redirect_detail"
                         /\ Len(comments') = Len(comments) + 1
                         /\ comments'[Len(comments')].author = u
                         /\ comments'[Len(comments')].post = i
                         /\ comments'[Len(comments')].text = d.text
                         /\ comments'[Len(comments')].created = now
       /\ \A k \in DOMAIN comments :
              /\ k \in DOMAIN comments'
              /\ comments'[k] = comments[k]]_vars

\* a comment has been created on a post of another user, after an earlier
\* comment, and the earlier comment is still there
C14_CommentCreated ==
    /\ req[SeqWorker].op = "add_comment"
    /\ req[SeqWorker].status = "redirect_detail"
    /\ Len(comments) = 2
    /\ comments[2].author = req[SeqWorker].user
    /\ comments[2].post = req[SeqWorker].arg
    /\ comments[2].text = "Comment"
    /\ posts[comments[2].post].author # comments[2].author
    /\ comments[1].post # comments[2].post

\* the page a feed shows when it is computed from the posts of the moment:
\* the rows of the ids, each with the fields the post has now, newest first
FeedNow(ids, out) ==
    /\ out.count = Cardinality(ids)
    /\ {out.items[k].id : k \in 1..Len(out.items)} = ids
    /\ Len(out.items) = Cardinality(ids)
    /\ \A k \in 1..Len(out.items) :
           /\ out.items[k].text = posts[out.items[k].id].text
           /\ out.items[k].group = posts[out.items[k].id].group
           /\ out.items[k].author = posts[out.items[k].id].author
    /\ \A k, l \in 1..Len(out.items) :
           k < l => PostNewer(out.items[k].id, out.items[l].id)

\* C13: the cache covers the index page only: every read of a group feed, a
\* profile feed or a follow feed is computed from the posts and follows of
\* the moment of the read and leaves the cache alone, so a post created or
\* edited just before the read shows in it, also while the cached index page
\* is within its 20 time units.
C13_OtherFeedsFresh ==
    [][/\ \A slug \in Groups :
              group_posts(SeqWorker, "bob", slug, RawAbsent) =>
                  /\ FeedNow({i \in PostIds : posts[i].group = slug}, req'[SeqWorker].out)
                  /\ cache' = cache
       /\ profile(SeqWorker, "bob", "author", RawAbsent) =>
              /\ FeedNow({i \in PostIds : posts[i].author = "author"}, req'[SeqWorker].out)
              /\ cache' = cache
       /\ follow_index(SeqWorker, "bob", RawAbsent) =>
              /\ FeedNow({i \in PostIds : follows[<<"bob", posts[i].author>>] > 0},
                         req'[SeqWorker].out)
              /\ cache' = cache]_vars

\* a group feed has been read and shows a post in its edited form, while the
\* cache serves an index page computed before the post was created
C13_FreshBesideStaleIndex ==
    /\ req[SeqWorker].op = "group_posts"
    /\ req[SeqWorker].status = "ok"
    /\ req[SeqWorker].out.count = 1
    /\ req[SeqWorker].out.items[1].text = "Text 2"
    /\ posts[req[SeqWorker].out.items[1].id].text = "Text 2"
    /\ Cached(CacheKey("bob", RawAbsent))
    /\ cache[CacheKey("bob", RawAbsent)].value.count < Len(posts)

====
